---- MODULE Spec2Model ----
(***************************************************************************)
(* Model of alphabet_rl.py: the /alphabet/next (Decide) and                *)
(* /alphabet/feedback (Feedback) handlers, the Q-table they share and its  *)
(* JSON file.                                                              *)
(*                                                                         *)
(* Letters, state keys and actions are strings, as in the source.  A       *)
(* mastery map is a function from the keys it holds to their levels.  A    *)
(* row of the Q-table is a sequence of <<action, value>> pairs in the      *)
(* dict's insertion order, which max() reads.  A Q value v stands for the  *)
(* real v / Unit; Unit is a power of 20, so that MaxFeedback updates with  *)
(* ALPHA = 1/2 and GAMMA = 9/10 are exact.                                 *)
(***************************************************************************)
EXTENDS Integers, Sequences, FiniteSets, TLC

VARIABLES Q, disk, pc, req, resp, nFeedback

vars == <<Q, disk, pc, req, resp, nFeedback>>

(* ------------------------------ bounds ------------------------------- *)

\* Feedback calls in one behaviour.
MaxFeedback == 2
\* Entries of a mastery map that differ from the map's fill.
MaxMapEntries == 2
\* Length of a recent history in the review requests.
MaxReview == 4

(* ------------------------- program constants ------------------------- *)

LETTERS == << "A", "B", "C", "D", "E", "F", "G", "H", "I", "J", "K", "L", "M",
              "N", "O", "P", "Q", "R", "S", "T", "U", "V", "W", "X", "Y", "Z" >>

\* ACTIONS (a reserved word of TLA+)
Actions == << "practice_current", "move_next", "jump_trouble", "review_recent" >>

\* ALPHA = 0.5 and GAMMA = 0.9 as fractions <<numerator, denominator>>.
ALPHA == << 1, 2 >>
GAMMA == << 9, 10 >>
MIN_RECENT_FOR_REVIEW == 2
PREFER_MOVE_ON_AT_ML == 1

\* One unit of reward in the fixed-point representation of Q values.
Unit == 20 ^ MaxFeedback

\* Python's None, and the ValueError LETTERS.index raises.
None == "None"
ValueError == "ValueError"

(* ------------------------------ helpers ------------------------------ *)

\* len(LETTERS)
NumLetters == Len(LETTERS)

\* l in LETTERS
InAlphabet(l) == \E i \in 1..NumLetters : LETTERS[i] = l

\* LETTERS.index(l), 0-based, for l in LETTERS
index(l) == (CHOOSE i \in 1..NumLetters : LETTERS[i] = l) - 1

\* LETTERS[i], 0-based
letterAt(i) == LETTERS[i + 1]

\* abs(x)
abs(x) == IF x < 0 THEN -x ELSE x

\* mastery_map.get(l, 0)
level(mastery_map, l) == IF l \in DOMAIN mastery_map THEN mastery_map[l] ELSE 0

\* Mutant of is_mastered: level 2 does not count as mastered.
is_mastered_strict(ltr, mastery_map) == level(mastery_map, ltr) > 2

is_mastered(ltr, mastery_map) == level(mastery_map, ltr) >= 2

state_key(letter, mastery_level) == letter \o ":" \o ToString(mastery_level)

(* ---------------------------- next_letter ---------------------------- *)

\* Mutant of scan_next: range(1, n), which never reaches the letter itself.
RECURSIVE scan_next_short(_, _, _)
scan_next_short(idx, step, mastery_map) ==
    IF step >= NumLetters THEN None
    ELSE LET cand == letterAt((idx + step) % NumLetters)
         IN  IF level(mastery_map, cand) < 2 THEN cand
             ELSE scan_next_short(idx, step + 1, mastery_map)

\* The for loop of next_letter from the given step on: the first candidate
\* not mastered, or None when the loop ends without a return.
RECURSIVE scan_next(_, _, _)
scan_next(idx, step, mastery_map) ==
    IF step > NumLetters THEN None
    ELSE LET cand == letterAt((idx + step) % NumLetters)
         IN  IF level(mastery_map, cand) < 2 THEN cand
             ELSE scan_next(idx, step + 1, mastery_map)

next_letter(letter, mastery_map) ==
    IF ~InAlphabet(letter) THEN ValueError
    ELSE LET idx == index(letter)
             found == IF DOMAIN mastery_map # {}
                      THEN scan_next(idx, 1, mastery_map)
                      ELSE None
         IN  IF found # None THEN found
             ELSE letterAt((idx + 1) % NumLetters)

(* ------------------------ pick_trouble_letter ------------------------ *)

\* keys_desc gives the iteration order of the map's keys: descending (TRUE)
\* or ascending (FALSE) alphabetic order; min() returns the first of the
\* nearest candidates in that order.
pick_trouble_letter(mastery_map, current_letter, keys_desc) ==
    LET zeros == {l \in DOMAIN mastery_map : mastery_map[l] = 0}
        ones == {l \in DOMAIN mastery_map : mastery_map[l] = 1}
        candidates == IF zeros # {} THEN zeros ELSE ones
    IN  IF candidates = {} THEN None
        ELSE IF ~InAlphabet(current_letter) THEN ValueError
        ELSE IF \E l \in candidates : ~InAlphabet(l) THEN ValueError
        ELSE LET cidx == index(current_letter)
                 dist(l) == abs(index(l) - cidx)
                 nearest == {l \in candidates :
                                \A k \in candidates : dist(l) <= dist(k)}
             IN  CHOOSE l \in nearest :
                    \A k \in nearest :
                        IF keys_desc THEN index(k) <= index(l)
                        ELSE index(l) <= index(k)

(* -------------------------- heuristic_policy -------------------------- *)

\* set(recent) without the mastered letters
recent_unmastered(recent, mastery_map) ==
    {recent[i] : i \in {j \in 1..Len(recent) : ~is_mastered(recent[j], mastery_map)}}

\* Mutant of heuristic_policy: the review test comes before the trouble test.
heuristic_policy_review_first(letter, ml, mastery_map, recent, keys_desc) ==
    IF ml >= PREFER_MOVE_ON_AT_ML THEN "move_next"
    ELSE LET t == IF DOMAIN mastery_map # {}
                  THEN pick_trouble_letter(mastery_map, letter, keys_desc)
                  ELSE None
         IN  IF t = ValueError THEN ValueError
             ELSE IF /\ recent # << >>
                     /\ Cardinality(recent_unmastered(recent, mastery_map))
                            >= MIN_RECENT_FOR_REVIEW
                  THEN "review_recent"
             ELSE IF t # None /\ t # letter THEN "jump_trouble"
             ELSE "practice_current"

heuristic_policy(letter, ml, mastery_map, recent, keys_desc) ==
    IF ml >= 2 THEN "move_next"
    ELSE IF ml >= PREFER_MOVE_ON_AT_ML THEN "move_next"
    ELSE LET t == IF DOMAIN mastery_map # {}
                  THEN pick_trouble_letter(mastery_map, letter, keys_desc)
                  ELSE None
         IN  IF t = ValueError THEN ValueError
             ELSE IF t # None /\ t # letter THEN "jump_trouble"
             ELSE IF /\ recent # << >>
                     /\ Cardinality(recent_unmastered(recent, mastery_map))
                            >= MIN_RECENT_FOR_REVIEW
                  THEN "review_recent"
             ELSE "practice_current"

(* ------------------------------ Q-table ------------------------------ *)

\* The Q-table before any request: defaultdict(dict), and no file at Q_PATH.
EmptyQ == [k \in {} |-> << >>]
NoFile == [exists |-> FALSE, data |-> EmptyQ]

\* The keys of a row (an insertion-ordered dict of action -> value).
row_keys(row) == {row[i][1] : i \in 1..Len(row)}

\* row.get(action, default)
row_get(row, action, default) ==
    IF action \in row_keys(row)
    THEN row[CHOOSE i \in 1..Len(row) : row[i][1] = action][2]
    ELSE default

\* Mutant of row_set: the row is replaced by the one entry.
row_set_replace(row, action, value) == << << action, value >> >>

\* row[action] = value: in place when the key exists, else appended.
row_set(row, action, value) ==
    IF action \in row_keys(row)
    THEN [i \in 1..Len(row) |->
             IF row[i][1] = action THEN << action, value >> ELSE row[i]]
    ELSE Append(row, << action, value >>)

\* max(row.values(), default=default)
max_value(row, default) ==
    IF row = << >> THEN default
    ELSE row[CHOOSE i \in 1..Len(row) :
                \A j \in 1..Len(row) : row[j][2] <= row[i][2]][2]

\* Q[skey] on the defaultdict: a missing key is inserted with an empty row.
touch(table, skey) ==
    [k \in DOMAIN table \cup {skey} |->
        IF k \in DOMAIN table THEN table[k] ELSE << >>]

\* load_q: Q is replaced by the file's table when the file exists.
load_q(file, table) == IF file.exists THEN file.data ELSE table

\* save_q: the whole table is written (json.dump keeps keys, order, values).
save_q(table) == [exists |-> TRUE, data |-> table]

\* Mutant of new_q: GAMMA is left out.
new_q_undiscounted(old_q, reward, next_max) ==
    old_q + (ALPHA[1] * (reward * Unit + next_max - old_q)) \div ALPHA[2]

\* The value update_q stores: old_q + ALPHA * (reward + GAMMA * next_max - old_q).
new_q(old_q, reward, next_max) ==
    old_q + (ALPHA[1] * (reward * Unit + (GAMMA[1] * next_max) \div GAMMA[2] - old_q))
                \div ALPHA[2]

\* update_q without its save_q(): the table after line 89.
update_q(table, skey, action, reward, next_skey) ==
    LET Q1 == touch(table, skey)
        old_q == row_get(Q1[skey], action, 0)
        Q2 == touch(Q1, next_skey)
        next_max == max_value(Q2[next_skey], 0)
    IN  [Q2 EXCEPT ![skey] = row_set(@, action, new_q(old_q, reward, next_max))]

argmax_action(table, skey) ==
    IF skey \notin DOMAIN table \/ table[skey] = << >> THEN None
    ELSE LET row == table[skey]
             best == CHOOSE i \in 1..Len(row) :
                        /\ \A j \in 1..Len(row) : row[j][2] <= row[i][2]
                        /\ \A j \in 1..(i - 1) : row[j][2] < row[i][2]
         IN  row[best][1]

\* explore is the outcome of the two random draws: None when
\* random.random() >= EPSILON, else the action random.choice(ACTIONS) gives.
epsilon_greedy(table, skey, letter, ml, mastery_map, recent, keys_desc, explore) ==
    LET learned_best == argmax_action(table, skey)
    IN  IF learned_best = None
        THEN LET base == heuristic_policy(letter, ml, mastery_map, recent, keys_desc)
             IN  IF base = ValueError THEN ValueError
                 ELSE IF explore # None THEN explore ELSE base
        ELSE IF explore # None THEN explore ELSE learned_best

(* ------------------------------ api_next ------------------------------ *)

\* Mutant of review_seen: a letter already collected is collected again.
RECURSIVE review_seen_dups(_, _, _, _)
review_seen_dups(recent, i, seen, mastery_map) ==
    IF i = 0 THEN seen
    ELSE LET l == recent[i]
             seen1 == IF ~is_mastered(l, mastery_map) THEN Append(seen, l) ELSE seen
         IN  IF Len(seen1) = 3 THEN seen1
             ELSE review_seen_dups(recent, i - 1, seen1, mastery_map)

\* The review_recent loop from position i of recent down to 1: the distinct
\* unmastered letters, most recent first, stopping at three.
RECURSIVE review_seen(_, _, _, _)
review_seen(recent, i, seen, mastery_map) ==
    IF i = 0 THEN seen
    ELSE LET l == recent[i]
             seen1 == IF /\ l \notin {seen[j] : j \in 1..Len(seen)}
                         /\ ~is_mastered(l, mastery_map)
                      THEN Append(seen, l)
                      ELSE seen
         IN  IF Len(seen1) = 3 THEN seen1
             ELSE review_seen(recent, i - 1, seen1, mastery_map)

\* The responses of the two handlers; an uncaught ValueError is an error
\* response carrying no recommendation.
ErrorResponse ==
    [status |-> "error", action |-> None, letter |-> None, list |-> << >>,
     state_key |-> None]
OkResponse(action, letter, list, skey) ==
    [status |-> "ok", action |-> action, letter |-> letter, list |-> list,
     state_key |-> skey]
NoResponse ==
    [status |-> "none", action |-> None, letter |-> None, list |-> << >>,
     state_key |-> None]
NoRequest == [op |-> "none"]

\* The letter and mastery level api_next goes on with after skipping a
\* current letter the map marks mastered (lines 134-136).
skip_mastered(current_letter, mastery_level, mastery_map) ==
    IF level(mastery_map, current_letter) >= 2
    THEN LET letter == next_letter(current_letter, mastery_map)
         IN  << letter, level(mastery_map, letter) >>
    ELSE << current_letter, mastery_level >>

\* The response of api_next to the request rq on the loaded table.
recommend(table, rq) ==
    LET mastery_map == rq.mastery_map
        recent == rq.recent_history
        skipped == skip_mastered(rq.current_letter, rq.mastery_level, mastery_map)
        letter == skipped[1]
        ml == skipped[2]
    IN  IF letter = ValueError THEN ErrorResponse
        ELSE
        LET skey == state_key(letter, ml)
            action == epsilon_greedy(table, skey, letter, ml, mastery_map, recent,
                                     rq.keys_desc, rq.explore)
        IN  IF action = ValueError THEN ErrorResponse
            ELSE
            LET t == IF DOMAIN mastery_map # {}
                     THEN pick_trouble_letter(mastery_map, letter, rq.keys_desc)
                     ELSE None
                seen == review_seen(recent, Len(recent), << >>, mastery_map)
                degraded == action = "review_recent" /\ seen = << >>
                target_letter ==
                    IF action = "practice_current" THEN letter
                    ELSE IF action = "move_next" THEN next_letter(letter, mastery_map)
                    ELSE IF action = "jump_trouble"
                         THEN (IF t # None THEN t ELSE letter)
                    ELSE IF action = "review_recent"
                         THEN (IF degraded THEN next_letter(letter, mastery_map)
                               ELSE seen[1])
                    ELSE letter
                target_list ==
                    IF action = "review_recent" /\ ~degraded THEN seen ELSE << >>
                final_action == IF degraded THEN "move_next" ELSE action
            IN  IF target_letter = ValueError THEN ErrorResponse
                ELSE
                LET final_letter ==
                        IF is_mastered(target_letter, mastery_map)
                        THEN next_letter(letter, mastery_map)
                        ELSE target_letter
                    final_list ==
                        SelectSeq(target_list,
                                  LAMBDA l : ~is_mastered(l, mastery_map))
                IN  IF final_letter = ValueError THEN ErrorResponse
                    ELSE OkResponse(final_action, final_letter, final_list, skey)

(* ------------------------------ requests ------------------------------ *)

AllLetters == {LETTERS[i] : i \in 1..NumLetters}
AllActions == {Actions[i] : i \in 1..Len(Actions)}

\* The letters on which the mastery maps and recent histories vary.
ProbeLetters == {"A", "B", "C", "D"}
\* A symbol outside the alphabet.
UnknownLetter == "?"
\* An action string outside ACTIONS.
UnknownAction == "bogus"

SeqsUpTo(S, n) == UNION {[1..k -> S] : k \in 0..n}

\* The mastery map that marks every letter mastered (fill) or holds nothing,
\* with the letters of S changed to f: a level 0..2, or -1 for no entry.
map_with(fill, S, f) ==
    LET kept == (IF fill THEN AllLetters ELSE {}) \ S
        set == {l \in S : f[l] >= 0}
    IN  [l \in kept \cup set |-> IF l \in set THEN f[l] ELSE 2]

MasteryMaps ==
    UNION {{map_with(fill, S, f) : f \in [S -> -1..2]} :
           <<fill, S>> \in BOOLEAN \X {T \in SUBSET ProbeLetters :
                                         Cardinality(T) <= MaxMapEntries}}

\* Maps whose entries are all level 2.
MasteredMaps == {m \in MasteryMaps : \A l \in DOMAIN m : m[l] = 2}

NextRequest(current_letter, mastery_level, mastery_map, recent, keys_desc, explore) ==
    [op |-> "next", current_letter |-> current_letter,
     mastery_level |-> mastery_level, mastery_map |-> mastery_map,
     recent_history |-> recent, keys_desc |-> keys_desc, explore |-> explore]

FeedbackRequest(skey, action, reward, next_letter_, next_ml) ==
    [op |-> "feedback", state_key |-> skey, action |-> action, reward |-> reward,
     next_letter |-> next_letter_, next_ml |-> next_ml]

\* The recent histories of the requests with varied mastery maps.
ShortHistories == {<< >>, << "A", "B" >>, << "B", "B" >>}

\* Decide requests with varied mastery maps and short histories.
VariedRequests ==
    {NextRequest(c, ml, m, r, d, e) :
        c \in {"C", UnknownLetter}, ml \in 0..2, m \in MasteryMaps,
        r \in ShortHistories, d \in BOOLEAN, e \in {None} \cup AllActions}

\* Decide requests with long histories over maps of mastered letters.
ReviewRequests ==
    {NextRequest("C", 0, m, r, FALSE, e) :
        m \in MasteredMaps, r \in SeqsUpTo(ProbeLetters, MaxReview),
        e \in {None, "review_recent"}}

\* Decide requests of the learning specification: the letter C, no map.
PlainRequests ==
    {NextRequest("C", ml, EmptyQ, << >>, FALSE, e) :
        ml \in 0..1, e \in {None} \cup AllActions}

\* Feedback requests of the learning specification.
LearningFeedbacks ==
    {FeedbackRequest(state_key("C", m), a, r, "C", 1) :
        m \in 0..1, a \in {"practice_current", "move_next", UnknownAction},
        r \in {-1, 0, 1}}

\* The Feedback request that precedes the Decide calls of the deciding
\* specification.
SeedFeedbacks == {FeedbackRequest(state_key("C", 0), UnknownAction, 1, "C", 1)}

(* ------------------------------- actions ------------------------------- *)

Init ==
    /\ Q = EmptyQ
    /\ disk = NoFile
    /\ pc = "idle"
    /\ req = NoRequest
    /\ resp = NoResponse
    /\ nFeedback = 0

\* POST /alphabet/next
api_next(rq) ==
    /\ pc = "idle"
    /\ Q' = load_q(disk, Q)
    /\ req' = rq
    /\ resp' = recommend(Q', rq)
    /\ pc' = "responded"
    /\ UNCHANGED <<disk, nFeedback>>

\* POST /alphabet/feedback
api_feedback(rq) ==
    /\ pc = "idle"
    /\ nFeedback < MaxFeedback
    /\ Q' = update_q(load_q(disk, Q), rq.state_key, rq.action, rq.reward,
                     state_key(rq.next_letter, rq.next_ml))
    /\ disk' = save_q(Q')
    /\ req' = rq
    /\ resp' = OkResponse(None, None, << >>, None)
    /\ pc' = "responded"
    /\ nFeedback' = nFeedback + 1

\* The response leaves; the handler's locals are gone.
Return ==
    /\ pc = "responded"
    /\ pc' = "idle"
    /\ req' = NoRequest
    /\ resp' = NoResponse
    /\ UNCHANGED <<Q, disk, nFeedback>>

\* next_letter alone, on every letter and every map.
call_next_letter(letter, mastery_map) ==
    /\ pc = "idle"
    /\ req' = [op |-> "next_letter", letter |-> letter, mastery_map |-> mastery_map]
    /\ resp' = OkResponse(None, next_letter(letter, mastery_map), << >>, None)
    /\ pc' = "responded"
    /\ UNCHANGED <<Q, disk, nFeedback>>

Decide == pc = "idle" /\ \E rq \in PlainRequests : api_next(rq)
Feedback == pc = "idle" /\ \E rq \in LearningFeedbacks : api_feedback(rq)
Next == Decide \/ Feedback \/ Return
Spec == Init /\ [][Next]_vars

DecideVaried == pc = "idle" /\ \E rq \in VariedRequests \cup ReviewRequests : api_next(rq)
FeedbackSeed == pc = "idle" /\ nFeedback = 0 /\ \E rq \in SeedFeedbacks : api_feedback(rq)
NextDecide == DecideVaried \/ FeedbackSeed \/ Return
SpecDecide == Init /\ [][NextDecide]_vars

NextLetterCall ==
    pc = "idle" /\ \E letter \in AllLetters, m \in MasteryMaps : call_next_letter(letter, m)
NextNextLetter == NextLetterCall \/ Return
SpecNextLetter == Init /\ [][NextNextLetter]_vars

(* ------------------------- terms of the claims ------------------------- *)

\* A Decide call has been answered with a recommendation.
Decided == pc = "responded" /\ req.op = "next" /\ resp.status = "ok"

\* The step is a Feedback call.
FeedbackStep == nFeedback' = nFeedback + 1

AllMastered(mastery_map) == \A l \in AllLetters : level(mastery_map, l) >= 2

\* The letter at circular distance d after s.
after(s, d) == letterAt((index(s) + d) % NumLetters)

\* The distances 1..26 after s at which the letter is not mastered.
open_distances(s, mastery_map) ==
    {d \in 1..NumLetters : level(mastery_map, after(s, d)) < 2}

\* nextUnmastered(s, map) as section 4.1 of the specification states it.
nextUnmastered(s, mastery_map) ==
    LET ds == open_distances(s, mastery_map)
    IN  IF ds = {} THEN after(s, 1)
        ELSE after(s, CHOOSE d \in ds : \A e \in ds : d <= e)

\* The letter and level the policy works on: the caller's, or the
\* substitute of a current letter the map marks mastered.
effective(rq) == skip_mastered(rq.current_letter, rq.mastery_level, rq.mastery_map)

\* The row of a state key holds no value.
Unlearned(table, skey) == skey \notin DOMAIN table \/ table[skey] = << >>

\* The value of an action in a state, absent counting as 0.
value_of(table, skey, action) ==
    IF skey \in DOMAIN table THEN row_get(table[skey], action, 0) ELSE 0

\* The maximum of a state's row, 0 for an absent or empty row.
row_max(table, skey) ==
    IF Unlearned(table, skey) THEN 0
    ELSE LET vs == {table[skey][i][2] : i \in 1..Len(table[skey])}
         IN  CHOOSE v \in vs : \A w \in vs : w <= v

\* The positions of recent that hold an unmastered letter not met again
\* later in recent: the letters a most-recent-first scan collects.
review_positions(recent, mastery_map) ==
    {i \in 1..Len(recent) :
        /\ ~is_mastered(recent[i], mastery_map)
        /\ \A j \in (i + 1)..Len(recent) : recent[j] # recent[i]}

\* The first up to 3 of them, most recent first.
review_list(recent, mastery_map) ==
    LET D == review_positions(recent, mastery_map)
        rank(i) == Cardinality({j \in D : j > i}) + 1
        n == IF Cardinality(D) < 3 THEN Cardinality(D) ELSE 3
    IN  [k \in 1..n |-> recent[CHOOSE i \in D : rank(i) = k]]

(* ------------------------------- claims ------------------------------- *)

\* C1: the target letter of a recommendation for a current letter of the
\* alphabet is not marked level 2 in the caller's mastery map, unless the
\* map marks all 26 letters level 2.
C1_TargetNotMastered ==
    (Decided /\ InAlphabet(req.current_letter)) =>
        \/ level(req.mastery_map, resp.letter) # 2
        \/ \A l \in AllLetters : level(req.mastery_map, l) = 2

\* C1 witness: a mastered current letter, an exploratory practice_current
\* and a map with an unmastered letter left.
C1_Witness ==
    /\ Decided
    /\ level(req.mastery_map, req.current_letter) = 2
    /\ req.explore = "practice_current"
    /\ ~AllMastered(req.mastery_map)
    /\ req.recent_history # << >>

\* C2 as stated: when the mastery_level argument is 2 or more, the target
\* differs from the current letter the caller supplied.
C2_Original ==
    (Decided /\ req.mastery_level >= 2) => resp.letter # req.current_letter

\* C3: next_letter(s, map) is the first letter at circular distance 1..26
\* after s whose level is below 2 (absent counting as 0), and the circular
\* successor of s when all 26 are mastered; so it is mastered only then.
C3_NextLetter ==
    (pc = "responded" /\ req.op = "next_letter") =>
        /\ resp.letter = nextUnmastered(req.letter, req.mastery_map)
        /\ is_mastered(resp.letter, req.mastery_map) =>
              /\ AllMastered(req.mastery_map)
              /\ index(resp.letter) = (index(req.letter) + 1) % NumLetters

\* C3 witness: every other letter is mastered and the scan ends on s itself.
C3_Witness ==
    /\ pc = "responded"
    /\ req.op = "next_letter"
    /\ resp.letter = req.letter
    /\ req.letter = "C"

\* C3 witness of the other case is the all-mastered map, reached when
\* the result is mastered.
C3_AllMasteredReached ==
    /\ pc = "responded"
    /\ req.op = "next_letter"
    /\ req.letter = "Z"
    /\ AllMastered(req.mastery_map)
    /\ resp.letter = "A"

\* C8 as stated: a Decide call whose current symbol is outside the alphabet
\* yields an error and no recommendation.
C8_Original ==
    (pc = "responded" /\ req.op = "next" /\ ~InAlphabet(req.current_letter)) =>
        resp.status = "error"

\* C4: with no learned value for the state key and exploration off, the
\* action is move_next at level 1 or more, else jump_trouble when
\* pickTrouble gives a letter other than the current one, else
\* review_recent when the history holds at least 2 distinct unmastered
\* letters, else practice_current; Decide(C, 0, {A:0, B:0}, []) gives
\* jump_trouble with target B.
C4_ColdStart ==
    (Decided /\ req.explore = None /\ Unlearned(Q, resp.state_key)) =>
        LET letter == effective(req)[1]
            ml == effective(req)[2]
            m == req.mastery_map
            t == pick_trouble_letter(m, letter, req.keys_desc)
            unmastered == {l \in {req.recent_history[i] :
                                    i \in 1..Len(req.recent_history)} :
                              level(m, l) < 2}
        IN  /\ resp.state_key = state_key(letter, ml)
            /\ resp.action =
                  IF ml >= 1 THEN "move_next"
                  ELSE IF t # None /\ t # letter THEN "jump_trouble"
                  ELSE IF Cardinality(unmastered) >= 2 THEN "review_recent"
                  ELSE "practice_current"
            /\ resp.action = "jump_trouble" => resp.letter = t
            /\ ( /\ req.current_letter = "C"
                 /\ req.mastery_level = 0
                 /\ m = [l \in {"A", "B"} |-> 0]
                 /\ req.recent_history = << >> )
               => (resp.action = "jump_trouble" /\ resp.letter = "B")

\* C4 witness: the Decide(C, 0, {A:0, B:0}, []) of the claim, answered.
C4_Witness ==
    /\ Decided
    /\ req.explore = None
    /\ Unlearned(Q, resp.state_key)
    /\ req.current_letter = "C"
    /\ req.mastery_level = 0
    /\ req.mastery_map = [l \in {"A", "B"} |-> 0]
    /\ req.recent_history = << >>
    /\ resp.action = "jump_trouble"

\* C4 witness of the third rule: the nearest trouble letter is the current
\* one and two unmastered letters are in the history.
C4_ReviewReached ==
    /\ Decided
    /\ req.explore = None
    /\ Unlearned(Q, resp.state_key)
    /\ req.mastery_map = [l \in {"C"} |-> 0]
    /\ resp.action = "review_recent"

\* C5: after a Feedback call the persisted table holds, at its state key
\* and action, old + 0.5 * (reward + 0.9 * nextMax - old), old and nextMax
\* read before the call with 0 for what is absent; the call succeeds and
\* creates the row of a state key never seen.  In twentieths:
\* 20 * new = 10 * old + 10 * reward + 9 * nextMax.
C5_Update ==
    [][FeedbackStep =>
        LET before == load_q(disk, Q)
            skey == req'.state_key
            old == value_of(before, skey, req'.action)
            nextMax == row_max(before, state_key(req'.next_letter, req'.next_ml))
            loaded == load_q(disk', EmptyQ)
        IN  /\ resp'.status = "ok"
            /\ disk'.exists
            /\ skey \in DOMAIN loaded
            /\ req'.action \in row_keys(loaded[skey])
            /\ 20 * value_of(loaded, skey, req'.action)
                  = 10 * old + 10 * req'.reward * Unit + 9 * nextMax
            /\ 2 * new_q(0, 1, 0) = Unit
            /\ 5 * new_q(Unit \div 2, -1, Unit) = Unit
    ]_vars

\* C5 witness: a second Feedback, on C:0 with reward 1 while the next
\* state's row holds 0.5, has stored 0.5 * (1 + 0.9 * 0.5) = 0.725.
C5_Witness ==
    /\ pc = "responded"
    /\ req.op = "feedback"
    /\ nFeedback = 2
    /\ req.state_key = "C:0"
    /\ req.reward = 1
    /\ disk.exists
    /\ row_max(disk.data, "C:1") * 2 = Unit
    /\ value_of(disk.data, "C:0", req.action) * 40 = 29 * Unit

\* C6 as stated, for rows that hold none but the four actions: in a learned
\* state with exploration off no one of the four actions has a value
\* strictly greater than the picked one's, absent counting as 0.
C6_Original ==
    ( /\ Decided
      /\ req.explore = None
      /\ ~Unlearned(Q, resp.state_key)
      /\ row_keys(Q[resp.state_key]) \subseteq AllActions )
    => \A a \in AllActions :
          value_of(Q, resp.state_key, a) <= value_of(Q, resp.state_key, resp.action)

\* C7: a selected review_recent returns the first up to 3 distinct
\* unmastered letters of the history, most recent first, and the first of
\* them as target; with none it returns move_next, an empty list and
\* nextUnmastered(current, map).  Any other action returns an empty list.
\* The list holds no duplicate, no mastered letter and at most 3 letters.
C7_Review ==
    Decided =>
        LET m == req.mastery_map
            letter == effective(req)[1]
            ml == effective(req)[2]
            selected == epsilon_greedy(Q, resp.state_key, letter, ml, m,
                                       req.recent_history, req.keys_desc, req.explore)
            L == review_list(req.recent_history, m)
        IN  /\ (selected = "review_recent" /\ L # << >>) =>
                  /\ resp.action = "review_recent"
                  /\ resp.list = L
                  /\ resp.letter = L[1]
            /\ (selected = "review_recent" /\ L = << >>) =>
                  /\ resp.action = "move_next"
                  /\ resp.list = << >>
                  /\ resp.letter = nextUnmastered(letter, m)
            /\ selected # "review_recent" =>
                  /\ resp.action = selected
                  /\ resp.list = << >>
            /\ resp.list # << >> => resp.action = "review_recent"
            /\ Len(resp.list) <= 3
            /\ \A i, j \in 1..Len(resp.list) :
                  i # j => resp.list[i] # resp.list[j]
            /\ \A i \in 1..Len(resp.list) : level(m, resp.list[i]) < 2

\* C7 witness: a history of more than 3 distinct unmastered letters with a
\* mastered one among them, answered with the 3 most recent.
C7_Witness ==
    /\ Decided
    /\ resp.action = "review_recent"
    /\ Len(resp.list) = 3
    /\ Len(req.recent_history) = 4
    /\ resp.letter # req.recent_history[4]
    /\ resp.list[3] = req.recent_history[1]

\* C7 witness of the degraded case: review_recent selected, nothing to
\* review, move_next returned.
C7_DegradedReached ==
    /\ Decided
    /\ req.explore = "review_recent"
    /\ req.recent_history # << >>
    /\ resp.action = "move_next"
    /\ ~AllMastered(req.mastery_map)

\* C9 as stated: every action key of the table is one of the four actions,
\* and so is the action of every recommendation.
C9_Original ==
    /\ \A k \in DOMAIN Q : row_keys(Q[k]) \subseteq AllActions
    /\ Decided => resp.action \in AllActions

\* C10 as stated: a Feedback call changes the table only at
\* table[StateKey][Action] and adds no state key other than StateKey, in
\* memory or in the file.
C10_Original ==
    [][FeedbackStep =>
        LET before == load_q(disk, Q)
            skey == req'.state_key
        IN  /\ \A k \in DOMAIN before \ {skey} : k \in DOMAIN Q' /\ Q'[k] = before[k]
            /\ \A a \in AllActions \cup {UnknownAction} :
                  a # req'.action => value_of(Q', skey, a) = value_of(before, skey, a)
            /\ DOMAIN Q' \subseteq DOMAIN before \cup {skey}
            /\ DOMAIN disk'.data \subseteq DOMAIN before \cup {skey}
    ]_vars

\* C10 amended: a Feedback call changes no value but table[StateKey][Action];
\* the state keys it adds are StateKey and the next state's key, the latter
\* with an empty row; the file holds the same table.
C10_Frame ==
    [][FeedbackStep =>
        LET before == load_q(disk, Q)
            skey == req'.state_key
            next_skey == state_key(req'.next_letter, req'.next_ml)
        IN  /\ \A k \in DOMAIN before \ {skey} : k \in DOMAIN Q' /\ Q'[k] = before[k]
            /\ \A a \in AllActions \cup {UnknownAction} :
                  a # req'.action =>
                      /\ value_of(Q', skey, a) = value_of(before, skey, a)
                      /\ skey \in DOMAIN before =>
                            (a \in row_keys(Q'[skey]) <=> a \in row_keys(before[skey]))
            /\ DOMAIN Q' = DOMAIN before \cup {skey, next_skey}
            /\ (next_skey \notin DOMAIN before /\ next_skey # skey) =>
                  Q'[next_skey] = << >>
            /\ disk' = [exists |-> TRUE, data |-> Q']
    ]_vars

\* C10 witness: a second Feedback on C:0 has kept the value of the first
\* one's action, and the next state's key C:1 holds an empty row.
C10_Witness ==
    /\ pc = "responded"
    /\ req.op = "feedback"
    /\ nFeedback = 2
    /\ req.state_key = "C:0"
    /\ Len(Q["C:0"]) = 2
    /\ Q["C:0"][2][1] = req.action
    /\ Q["C:1"] = << >>
    /\ disk.data = Q

====
